---------------------------- MODULE Spec2Model ----------------------------
(***************************************************************************)
(* The hierarchical popup menu of phosphor-ui (class Menu, class MenuItem  *)
(* and namespace Private of src/src/box-panel.ts, lines 759-2535).         *)
(*                                                                         *)
(* A state is the fields of every Menu object and of every MenuItem        *)
(* object, the browser's pending timers in the order they were started    *)
(* (all have the delay TIMER_DELAY) and the order of the listeners         *)
(* the menus installed on the document.  One action is one call of the     *)
(* public API, one DOM event or one timer callback, run to completion.     *)
(*                                                                         *)
(* Indices are the code's: 0-based, -1 for "none".  A menu reference is a  *)
(* number of Menus, Null for null.  The handlers are written as operators  *)
(* from a state record to a state record, so that a handler can call       *)
(* another; an action applies one of them to the current state.            *)
(*                                                                         *)
(* A handler is a composition of operators, one per block of its code, and *)
(* not a chain of LET definitions.                                         *)
(*                                                                         *)
(* Of the style of a menu node the model keeps top, left and visibility,   *)
(* as the last step wrote them.  Not modelled: width, height and maxHeight *)
(* of the style, the class names of the item nodes other than the hidden   *)
(* class (no handler reads them back), and `this.parent` (no code of the   *)
(* file makes a menu the child of a host widget, so the branch of          *)
(* onCloseRequest at 1812-1816 is never taken).                            *)
(***************************************************************************)
EXTENDS Integers, Sequences, FiniteSets, TLC

(***************************************************************************)
(* Bounds of the model.                                                    *)
(***************************************************************************)
NMenus == 3
MaxItems == 2
MaxRender == 6

Null == 0
Menus == 1..NMenus

(***************************************************************************)
(* The MenuItem objects of the model (class MenuItem, 975-1134).  `type`,  *)
(* `text` are fixed at construction here; `disabled`, `hidden` and         *)
(* `submenu` are fields the host may assign at any time.                   *)
(***************************************************************************)
ItemIds == 1..7

ItemType(it) ==
  CASE it = 1 -> "submenu"
    [] it = 2 -> "submenu"
    [] it = 3 -> "submenu"
    [] it = 4 -> "normal"
    [] it = 5 -> "separator"
    [] it = 7 -> "separator"
    [] OTHER  -> "check"

ItemText(it) ==
  CASE it = 1 -> <<"F", "&", "&", "s">>
    [] it = 2 -> <<"&", "&", "&", "o">>
    [] it = 3 -> <<"x">>
    [] it = 4 -> <<"&", "&", "O", "&", "&", "s">>
    [] it = 5 -> <<>>
    [] it = 7 -> <<>>
    [] OTHER  -> <<"&", "&", "o">>

\* The `submenu` option each item is constructed with (1015-1017).
ItemSubmenu0(it) ==
  CASE it = 1 -> 2
    [] it = 2 -> 3
    [] it = 3 -> 1
    [] OTHER  -> Null

\* The `hidden` option each item is constructed with (1003-1005).
ItemHidden0(it) == it \in {6, 7}

(***************************************************************************)
(* A behaviour is one application of the menus.  The applications differ   *)
(* in the templates the menus are constructed from (Menu.fromTemplate) and *)
(* in what the host does while the menus are in use:                       *)
(*   "shared"  the item that leads to menu 3 is in menu 1 and in menu 2;   *)
(*   "cyclic"  menu 1 leads to menus 2 and 3, and an item of each of them  *)
(*             leads back to menu 1;                                       *)
(*   "edited"  the host assigns fields of the items;                       *)
(*   "built"   the host inserts and removes items.                         *)
(* In all of them the host opens and closes the menus and assigns          *)
(* activeIndex, the user moves the pointer, clicks and types, and the      *)
(* timers fire.                                                            *)
(***************************************************************************)
Worlds == {"shared", "cyclic", "edited", "built"}

Template(w, m) ==
  CASE w = "shared" ->
         (CASE m = 1 -> <<1, 2>>
            [] m = 2 -> <<2, 4>>
            [] OTHER -> <<4, 6>>)
    [] w = "cyclic" ->
         (CASE m = 1 -> <<1, 2>>
            [] m = 2 -> <<3, 5>>
            [] OTHER -> <<4, 3>>)
    [] w = "edited" ->
         (CASE m = 1 -> <<1, 4>>
            [] m = 2 -> <<2, 4>>
            [] OTHER -> <<4, 5>>)
    [] w = "placed" ->
         (CASE m = 1 -> <<1, 4>>
            [] m = 2 -> <<4>>
            [] OTHER -> <<>>)
    [] OTHER ->
         (CASE m = 1 -> <<1>>
            [] m = 2 -> <<4>>
            [] OTHER -> <<>>)

VARIABLES
  world,          \* the application: what the host does (never changes)
  items,          \* Menu._items: per menu, the sequence of MenuItem objects
  nodes,          \* Menu._nodes: per menu, the sequence of item nodes; a node
                  \* is written as the item it was created for
  hiddenClass,    \* per menu and node, in the order of _nodes: the class list
                  \* of the node holds HIDDEN_CLASS
  activeIndex,    \* Menu._activeIndex
  childIndex,     \* Menu._childIndex
  childMenu,      \* Menu._childMenu
  parentMenu,     \* Menu._parentMenu
  openTimerID,    \* Menu._openTimerID: 0, or 1 for the handle of a timer
  closeTimerID,   \* Menu._closeTimerID
  openPending,    \* the open-timer callbacks of a menu waiting in the event loop
  closePending,   \* the close-timer callbacks of a menu waiting in the event loop
  timers,         \* the event loop: the pending callbacks <<kind, menu>> in the
                  \* order setTimeout was called; every one has the delay
                  \* TIMER_DELAY, so they run in this order
  openTimerItem,  \* the index of the item under the pointer when the pending
                  \* open timer was started at line 1918; -1 with no timer
  attached,       \* Widget.isAttached
  listeners,      \* the menus listening on the document, in the order installed
  itemDisabled,   \* MenuItem.disabled
  itemHidden,     \* MenuItem.hidden
  itemSubmenu,    \* MenuItem.submenu
  disposed,       \* Widget.isDisposed: dispose() was called on the menu
  leftMenu,       \* the menu the pointer left for a place outside its open
                  \* child, as the last input; Null while input goes on
  leftBelow,      \* the menus that were below leftMenu when the pointer left,
                  \* until all of them are closed and leftMenu has no child
  triggeredLog,   \* the 'triggered' emissions of the last step: <<menu, item>>
  closedLog,      \* the 'closed' emissions of the last step: menu
  styleLog        \* the styles the last step left on the nodes of the menus
                  \* it opened, one per call of openRootMenu or openSubmenu;
                  \* observed in the application "placed" only

vars == <<world, items, nodes, hiddenClass, activeIndex, childIndex,
          childMenu, parentMenu, openTimerID, closeTimerID, openPending, closePending,
          timers, openTimerItem, attached,
          listeners, itemDisabled, itemHidden, itemSubmenu, disposed,
          leftMenu, leftBelow,
          triggeredLog, closedLog, styleLog>>


(***************************************************************************)
(* The state as one record, for the handlers to pass along.  `threw` and   *)
(* `hung` are the fate of the running handler: an exception left it, or    *)
(* it entered a loop that does not end.                                    *)
(***************************************************************************)
Cur ==
  [world |-> world, items |-> items, nodes |-> nodes, hiddenClass |-> hiddenClass,
   activeIndex |-> activeIndex,
   childIndex |-> childIndex, childMenu |-> childMenu,
   parentMenu |-> parentMenu, openTimerID |-> openTimerID,
   closeTimerID |-> closeTimerID, openPending |-> openPending,
   closePending |-> closePending, timers |-> timers,
   openTimerItem |-> openTimerItem,
   attached |-> attached,
   listeners |-> listeners, itemDisabled |-> itemDisabled,
   itemHidden |-> itemHidden, itemSubmenu |-> itemSubmenu,
   disposed |-> disposed, leftMenu |-> leftMenu, leftBelow |-> leftBelow,
   triggeredLog |-> <<>>, closedLog |-> <<>>, styleLog |-> <<>>,
   threw |-> FALSE, hung |-> FALSE]

\* Vector.at(i), Vector.insert(i, v), Vector.remove(i) with 0-based i.
At(seq, i) == seq[i + 1]
InsertAt(seq, i, v) == SubSeq(seq, 1, i) \o <<v>> \o SubSeq(seq, i + 1, Len(seq))
RemoveAt(seq, i) == SubSeq(seq, 1, i) \o SubSeq(seq, i + 2, Len(seq))
Without(seq, v) == SelectSeq(seq, LAMBDA x : x # v)

Max(a, b) == IF a > b THEN a ELSE b
Min(a, b) == IF a < b THEN a ELSE b

\* Math.floor of a number given in halves (h stands for h/2).
FloorHalf(h) == h \div 2

\* Private.isSelectable, of the item object `it` in state s.
isSelectable(s, it) ==
  ~(ItemType(it) = "separator" \/ s.itemDisabled[it] \/ s.itemHidden[it])

\* get activeItem: the active item object, or Null.
activeItem(s, m) ==
  IF s.activeIndex[m] # -1 THEN At(s.items[m], s.activeIndex[m]) ELSE Null

\* The index the setter of activeIndex coerces an integral value to.
CoerceIndex(s, m, value) ==
  IF value < 0 \/ value >= Len(s.items[m]) THEN -1
  ELSE IF ~isSelectable(s, At(s.items[m], value)) THEN -1
  ELSE value

\* set activeIndex, for an integral value.
SetActiveIndex(s, m, value) ==
  [s EXCEPT !.activeIndex[m] = CoerceIndex(s, m, value)]

\* _cancelCloseTimer that leaves the timer as it is.
KeepCloseTimer(s, m) == s

\* The event loop q without its k-th callback.
Skipping(q, k) == SubSeq(q, 1, k - 1) \o SubSeq(q, k + 1, Len(q))

\* The places of the callback t in the event loop q.
Places(q, t) == {k \in 1..Len(q) : q[k] = t}

\* clearTimeout (2193, 2206): the callback of the handle, the one setTimeout
\* gave last, leaves the event loop.
Cleared(q, t) ==
  IF Places(q, t) = {} THEN q
  ELSE Skipping(q, CHOOSE k \in Places(q, t) : \A j \in Places(q, t) : j <= k)

\* The event loop once the callback t has run: the oldest one of its kind.
Ran(q, t) ==
  IF Places(q, t) = {} THEN q
  ELSE Skipping(q, CHOOSE k \in Places(q, t) : \A j \in Places(q, t) : k <= j)

\* The callback t is the next the event loop runs.
Due(q, t) == q # <<>> /\ Head(q) = t

\* _cancelOpenTimer / _cancelCloseTimer: clearTimeout takes the callback the
\* handle names out of the event loop.
CancelOpenTimer(s, m) ==
  IF s.openTimerID[m] # 0
  THEN [s EXCEPT !.openPending[m] = @ - 1, !.openTimerID[m] = 0,
                 !.openTimerItem[m] = -1,
                 !.timers = Cleared(@, <<"open", m>>)]
  ELSE s

CancelCloseTimer(s, m) ==
  IF s.closeTimerID[m] # 0
  THEN [s EXCEPT !.closePending[m] = @ - 1, !.closeTimerID[m] = 0,
                 !.timers = Cleared(@, <<"close", m>>)]
  ELSE s

\* "Cancel the pending timers" with the call of _cancelCloseTimer left out.
CancelOpenTimerOnly(s, m) == CancelOpenTimer(s, m)

\* "Cancel the pending timers": both calls, as they stand together in the code.
CancelTimers(s, m) == CancelCloseTimer(CancelOpenTimer(s, m), m)

\* _startOpenTimer without the test of _openTimerID: a second setTimeout
\* whose handle replaces the first.
StartOpenTimerAgain(s, m) ==
  [s EXCEPT !.openPending[m] = @ + 1, !.openTimerID[m] = 1,
            !.openTimerItem[m] = s.activeIndex[m],
            !.timers = Append(@, <<"open", m>>)]

\* _startOpenTimer / _startCloseTimer: setTimeout puts one callback into the
\* event loop.
StartOpenTimer(s, m) ==
  IF s.openTimerID[m] = 0
  THEN [s EXCEPT !.openPending[m] = @ + 1, !.openTimerID[m] = 1,
                 !.openTimerItem[m] = s.activeIndex[m],
                 !.timers = Append(@, <<"open", m>>)]
  ELSE s

StartCloseTimer(s, m) ==
  IF s.closeTimerID[m] = 0
  THEN [s EXCEPT !.closePending[m] = @ + 1, !.closeTimerID[m] = 1,
                 !.timers = Append(@, <<"close", m>>)]
  ELSE s

\* Widget.detach with onBeforeDetach: the listeners are removed.
Detach(s, m) ==
  [s EXCEPT !.attached[m] = FALSE, !.listeners = Without(@, m)]

\* Widget.attach with onAfterAttach: the listeners are installed.  A widget
\* that is attached already is refused: it stays attached, its listeners
\* keep their places, and the caller is left by an exception.
Attach(s, m) ==
  IF s.attached[m]
  THEN [s EXCEPT !.threw = TRUE]
  ELSE [s EXCEPT !.attached[m] = TRUE, !.listeners = Append(@, m)]

(***************************************************************************)
(* onCloseRequest, which Widget.close() runs synchronously.                *)
(***************************************************************************)
RECURSIVE Close(_, _)

\* "Close any open child menu."
CloseChildOf(s, m) ==
  IF s.childMenu[m] # Null
  THEN Close([s EXCEPT !.childIndex[m] = -1,
                       !.childMenu[m] = Null,
                       !.parentMenu[s.childMenu[m]] = Null], s.childMenu[m])
  ELSE s

\* "Remove this menu from any parent."
LeaveParent(s, m) ==
  IF s.parentMenu[m] # Null
  THEN [CancelTimers([s EXCEPT !.parentMenu[m] = Null], s.parentMenu[m])
          EXCEPT !.childIndex[s.parentMenu[m]] = -1,
                 !.childMenu[s.parentMenu[m]] = Null]
  ELSE s

\* onCloseRequest that emits the closed signal whether attached or not.
DetachAndEmitAlways(s, m) ==
  [Detach(s, m) EXCEPT !.closedLog = Append(@, m)]

\* onCloseRequest that detaches the menu and emits nothing.
DetachQuietly(s, m) == IF s.attached[m] THEN Detach(s, m) ELSE s

\* "If the menu is attached, detach it and emit the closed signal."
DetachAndEmit(s, m) ==
  IF s.attached[m]
  THEN [Detach(s, m) EXCEPT !.closedLog = Append(@, m)]
  ELSE s

Close(s, m) ==
  DetachAndEmit(
    LeaveParent(
      CloseChildOf(
        SetActiveIndex(CancelTimers(s, m), m, -1), m), m), m)

\* _closeChildMenu
CloseChildMenu(s, m) ==
  IF s.childMenu[m] = Null
  THEN s
  ELSE Close([s EXCEPT !.childIndex[m] = -1,
                       !.childMenu[m] = Null,
                       !.parentMenu[s.childMenu[m]] = Null], s.childMenu[m])

(***************************************************************************)
(* Opening.  The placement that openRootMenu and openSubmenu compute from  *)
(* the measurements goes into the style of the node and is not kept here.  *)
(***************************************************************************)
\* classList.add(HIDDEN_CLASS) on the node at index k.
AddHidden(cls, k) == [cls EXCEPT ![k + 1] = TRUE]

\* hideExtraSeparators, first loop (2279-2290) from k1 on: where it stops,
\* and the classes it leaves.
RECURSIVE HideLeading(_, _, _, _)
HideLeading(s, its, cls, k1) ==
  IF k1 >= Len(its) THEN [k |-> k1, cls |-> cls]
  ELSE IF s.itemHidden[At(its, k1)] THEN HideLeading(s, its, cls, k1 + 1)
  ELSE IF ItemType(At(its, k1)) # "separator" THEN [k |-> k1, cls |-> cls]
  ELSE HideLeading(s, its, AddHidden(cls, k1), k1 + 1)

\* Second loop (2292-2303) from k2 down.
RECURSIVE HideTrailing(_, _, _, _)
HideTrailing(s, its, cls, k2) ==
  IF k2 < 0 THEN [k |-> k2, cls |-> cls]
  ELSE IF s.itemHidden[At(its, k2)] THEN HideTrailing(s, its, cls, k2 - 1)
  ELSE IF ItemType(At(its, k2)) # "separator" THEN [k |-> k2, cls |-> cls]
  ELSE HideTrailing(s, its, AddHidden(cls, k2), k2 - 1)

\* Third loop (2305-2319): `while (++k1 < k2)` with the flag `hide`.
RECURSIVE HideConsecutive(_, _, _, _, _, _)
HideConsecutive(s, its, cls, k1, k2, hide) ==
  IF k1 + 1 >= k2 THEN cls
  ELSE IF s.itemHidden[At(its, k1 + 1)]
  THEN HideConsecutive(s, its, cls, k1 + 1, k2, hide)
  ELSE IF ItemType(At(its, k1 + 1)) # "separator"
  THEN HideConsecutive(s, its, cls, k1 + 1, k2, FALSE)
  ELSE IF hide
  THEN HideConsecutive(s, its, AddHidden(cls, k1 + 1), k1 + 1, k2, TRUE)
  ELSE HideConsecutive(s, its, cls, k1 + 1, k2, TRUE)

\* The third loop, entered with the indices the first two stopped at.
HideInterior(s, its, lead, trail) ==
  HideConsecutive(s, its, trail.cls, lead.k, trail.k, FALSE)

\* The second and third loops, after the first.
HideAfterLeading(s, its, lead) ==
  HideInterior(s, its, lead, HideTrailing(s, its, lead.cls, Len(its) - 1))

\* hideExtraSeparators with its first loop alone.
hideLeadingSeparators(s, its, cls) == HideLeading(s, its, cls, 0).cls

\* Private.hideExtraSeparators: the classes of the nodes after it, from cls.
hideExtraSeparators(s, its, cls) ==
  HideAfterLeading(s, its, HideLeading(s, its, cls, 0))

\* The loop of updateItemNode calls (1768-1770): createItemClassName puts
\* HIDDEN_CLASS into the class name of the node of an item that is hidden
\* (1267-1269), and into no other.
UpdateItemNodes(s, its) == [i \in 1..Len(its) |-> s.itemHidden[its[i]]]

\* onUpdateRequest
onUpdateRequest(s, m) ==
  [s EXCEPT !.hiddenClass[m] =
     hideExtraSeparators(s, s.items[m], UpdateItemNodes(s, s.items[m]))]

\* "Clear the menu geometry and prepare it for measuring" (2425-2431 and
\* 2487-2493): the empty string is written as the empty sequence.
ClearedStyle(menu) ==
  [menu |-> menu, top |-> <<>>, left |-> <<>>, visibility |-> "hidden"]

\* `${Math.max(0, n)}px`
Pixels(n) == <<Max(0, n)>>

\* "Update the position of the menu to the computed position" and "make the
\* menu visible" (2458-2463 and 2528-2533).
PlacedStyle(menu, x, y) ==
  [menu |-> menu, top |-> Pixels(y), left |-> Pixels(x), visibility |-> ""]

\* The style the call leaves on the node of menu: the computed position, or
\* the cleared style when an exception left the call before line 2459
\* (2529 for a submenu).
LeaveStyle(s, menu, x, y) ==
  IF s.world # "placed"
  THEN s
  ELSE [s EXCEPT !.styleLog =
          Append(@, IF s.threw THEN ClearedStyle(menu)
                               ELSE PlacedStyle(menu, x, y))]

\* No X adjustment: the requested coordinate, wherever it is.
RootXKept(g) == g.x

\* The X adjustment that lets the forced coordinate be moved as well.
RootXUnforced(g) ==
  IF g.x + g.width > g.px + g.cw THEN g.px + g.cw - g.width ELSE g.x

\* "Adjust the X position of the menu to fit on-screen" (2444-2447).  g is the
\* arguments x, y, forceX, forceY of the call, the viewport px, py, cw, ch read
\* at 2413-2416 and the width and height measured at 2442.
RootX(g) ==
  IF ~g.forceX /\ g.x + g.width > g.px + g.cw
  THEN g.px + g.cw - g.width
  ELSE g.x

\* The Y adjustment that moves the menu up by the overflow in both cases.
RootYShifted(g) ==
  IF ~g.forceY /\ g.y + g.height > g.py + g.ch
  THEN g.py + g.ch - g.height
  ELSE g.y

\* "Adjust the Y position of the menu to fit on-screen" (2449-2456).
RootY(g) ==
  IF ~g.forceY /\ g.y + g.height > g.py + g.ch
  THEN IF g.y > g.py + g.ch THEN g.py + g.ch - g.height ELSE g.y - g.height
  ELSE g.y

\* Private.openRootMenu
openRootMenu(s, menu, g) ==
  LeaveStyle(Attach(onUpdateRequest(s, menu), menu), menu, RootX(g), RootY(g))

\* open without the test of isAttached.
openAlways(s, m, g) == openRootMenu(s, m, g)

\* open
open(s, m, g) == IF s.attached[m] THEN s ELSE openRootMenu(s, m, g)

\* The value of `this.activeItemNode` at line 2134: Menu declares no such
\* property, so it is undefined.  An item node that is defined would carry
\* its bounding rectangle, with the viewport, the measured size and the box
\* sizing of the menu that openSubmenu reads.
Undefined == [defined |-> FALSE]
activeItemNode(s, m) == Undefined

\* itemNode.getBoundingClientRect() at line 2510, reached once the menu is
\* attached, raises when itemNode is undefined.
MeasureItemNode(s, itemNode) ==
  IF s.threw \/ itemNode.defined THEN s ELSE [s EXCEPT !.threw = TRUE]

SUBMENU_OVERLAP == 3

\* "Compute the target X position" and "Adjust the X position to fit on the
\* screen" (2512-2518).
SubmenuX(n) ==
  IF n.right - SUBMENU_OVERLAP + n.width > n.px + n.cw
  THEN n.left + SUBMENU_OVERLAP - n.width
  ELSE n.right - SUBMENU_OVERLAP

\* "Compute the target Y position" and "Adjust the Y position to fit on the
\* screen" (2520-2526).
SubmenuY(n) ==
  IF n.top - n.borderTop - n.paddingTop + n.height > n.py + n.ch
  THEN n.bottom + n.borderBottom + n.paddingBottom - n.height
  ELSE n.top - n.borderTop - n.paddingTop

\* Lines 2512-2533 of openSubmenu, which run when line 2510 raised nothing.
PlaceSubmenu(s, menu, itemNode) ==
  IF s.threw
  THEN LeaveStyle(s, menu, 0, 0)
  ELSE LeaveStyle(s, menu, SubmenuX(itemNode), SubmenuY(itemNode))

\* Private.openSubmenu
openSubmenu(s, menu, itemNode) ==
  PlaceSubmenu(
    MeasureItemNode(Attach(onUpdateRequest(s, menu), menu), itemNode),
    menu, itemNode)

\* The test of lines 2112 and 1913: item is a submenu item with a menu.
ValidSubmenu(s, item) ==
  item # Null /\ ItemType(item) = "submenu" /\ s.itemSubmenu[item] # Null

\* "Update the private child state" to the end of _openChildMenu.
LinkChild(s, m, menu) ==
  openSubmenu([s EXCEPT !.childMenu[m] = menu,
                        !.childIndex[m] = s.activeIndex[m],
                        !.parentMenu[menu] = m],
              menu, activeItemNode(s, m))

\* _openChildMenu
OpenChildMenu(s, m) ==
  IF ~ValidSubmenu(s, activeItem(s, m)) THEN CloseChildMenu(s, m)
  ELSE IF s.itemSubmenu[activeItem(s, m)] = s.childMenu[m] THEN s
  ELSE LinkChild(CloseChildMenu(s, m), m, s.itemSubmenu[activeItem(s, m)])

(***************************************************************************)
(* _triggerItem: the loop emits on this menu and on each parentMenu in     *)
(* turn, then the last menu it found is closed.  `fuel` bounds the walk: a *)
(* walk that outlasts it goes round a cycle of parentMenu links and never  *)
(* ends.                                                                   *)
(***************************************************************************)
Emit(s, menu, item) == [s EXCEPT !.triggeredLog = Append(@, <<menu, item>>)]

RECURSIVE TriggerWalk(_, _, _, _)
TriggerWalk(s, menu, item, fuel) ==
  IF s.parentMenu[menu] = Null THEN Close(Emit(s, menu, item), menu)
  ELSE IF fuel = 0 THEN [Emit(s, menu, item) EXCEPT !.hung = TRUE]
  ELSE TriggerWalk(Emit(s, menu, item), s.parentMenu[menu], item, fuel - 1)

TriggerItem(s, m, item) == TriggerWalk(s, m, item, NMenus)

(***************************************************************************)
(* Private.activate...: the scans over the items.                          *)
(***************************************************************************)
\* The loop `for (i = 0; i < n; ++i)` of the scans: k[i] for the first i
\* whose item passes, or -1 when the loop ends.  k and pass are the loop's
\* index expression and test, tabulated over 0..n-1.
RECURSIVE ScanFrom(_, _, _, _)
ScanFrom(i, n, k, pass) ==
  IF i >= n THEN -1
  ELSE IF pass[k[i]] THEN k[i]
  ELSE ScanFrom(i + 1, n, k, pass)

Selectable(s, m) ==
  [x \in 0..(Len(s.items[m]) - 1) |-> isSelectable(s, At(s.items[m], x))]

\* The index expressions of the loops: i, (i + j) % n and (j - i + n) % n.
Identity(n) == [i \in 0..(n - 1) |-> i]
Forward(n, j) == [i \in 0..(n - 1) |-> (i + j) % n]
Backward(n, j) == [i \in 0..(n - 1) |-> (j - i + n) % n]

\* The start of the backward scan without the wrap at the front.
PrevStartUnwrapped(n, ai) == ai - 1

\* `ai <= 0 ? n - 1 : ai - 1` of activatePrevSelectable.
PrevStart(n, ai) == IF ai <= 0 THEN n - 1 ELSE ai - 1

activateFirstSelectable(s, m) ==
  SetActiveIndex(s, m,
    ScanFrom(0, Len(s.items[m]), Identity(Len(s.items[m])), Selectable(s, m)))

activateNextSelectable(s, m) ==
  SetActiveIndex(s, m,
    ScanFrom(0, Len(s.items[m]),
             Forward(Len(s.items[m]), s.activeIndex[m] + 1), Selectable(s, m)))

activatePrevSelectable(s, m) ==
  SetActiveIndex(s, m,
    ScanFrom(0, Len(s.items[m]),
             Backward(Len(s.items[m]),
                      PrevStart(Len(s.items[m]), s.activeIndex[m])),
             Selectable(s, m)))

\* String.toUpperCase on the characters of the model, and \w.
toUpperCase(c) ==
  CASE c = "o" -> "O"
    [] c = "s" -> "S"
    [] c = "x" -> "X"
    [] OTHER   -> c
WordChar(c) == c \notin {"&", " "}

\* text.match(/&&\w/): the position (1-based) of the leftmost match, or 0.
RECURSIVE MatchFrom(_, _)
MatchFrom(text, p) ==
  IF p + 2 > Len(text) THEN 0
  ELSE IF text[p] = "&" /\ text[p + 1] = "&" /\ WordChar(text[p + 2]) THEN p
  ELSE MatchFrom(text, p + 1)

\* The test of lines 2394-2397: the text has a match and the character after
\* its `&&`, upper-cased, is c.
MnemonicMatches(text, c) ==
  MatchFrom(text, 1) # 0 /\ toUpperCase(text[MatchFrom(text, 1) + 2]) = c

\* The test of the loop of activateNextMnemonic, tabulated.
MnemonicPass(s, m, c) ==
  [x \in 0..(Len(s.items[m]) - 1) |->
     /\ isSelectable(s, At(s.items[m], x))
     /\ MnemonicMatches(ItemText(At(s.items[m], x)), c)]

activateNextMnemonic(s, m, char) ==
  SetActiveIndex(s, m,
    ScanFrom(0, Len(s.items[m]),
             Forward(Len(s.items[m]), s.activeIndex[m] + 1),
             MnemonicPass(s, m, toUpperCase(char))))

(***************************************************************************)
(* The event handlers.  `i` is the result of the hit test of the item      *)
(* nodes: the index of the item under the pointer, or -1.                  *)
(***************************************************************************)
\* Lines 1856-1865: open the submenu of the active item, or trigger it.
OpenOrTrigger(s, m) ==
  IF ItemType(activeItem(s, m)) = "submenu"
  THEN OpenChildMenu(s, m)
  ELSE TriggerItem(s, m, activeItem(s, m))

\* Lines 1846-1865, after the assignment of activeIndex.
MouseUpOnActive(s, m) ==
  IF activeItem(s, m) = Null THEN s
  ELSE OpenOrTrigger(CancelTimers(s, m), m)

\* _evtMouseUp
evtMouseUp(s, m, button, i) ==
  IF button # 0 THEN s ELSE MouseUpOnActive(SetActiveIndex(s, m, i), m)

\* The body of the loop of lines 1890-1894.
SyncOne(s, menu) ==
  SetActiveIndex(CancelTimers(s, menu), menu, s.childIndex[menu])

\* The loop of lines 1890-1894 over the ancestors of a menu.
RECURSIVE SyncAncestors(_, _, _)
SyncAncestors(s, menu, fuel) ==
  IF menu = Null THEN s
  ELSE IF fuel = 0 THEN [s EXCEPT !.hung = TRUE]
  ELSE SyncAncestors(SyncOne(s, menu), s.parentMenu[menu], fuel - 1)

\* Lines 1911-1918: start the open timer for a submenu item with a menu.
MouseMoveOpen(s, m) ==
  IF ValidSubmenu(s, activeItem(s, m)) THEN StartOpenTimer(s, m) ELSE s

\* Lines 1903-1909 without the test of _childIndex.
MouseMoveCloseAlways(s, m) == CancelOpenTimer(StartCloseTimer(s, m), m)

\* Lines 1903-1909: start the close timer of an open child, cancel the open
\* timer.
MouseMoveClose(s, m) ==
  CancelOpenTimer(IF s.childIndex[m] # -1 THEN StartCloseTimer(s, m) ELSE s, m)

\* Lines 1896-1918, after the loop over the ancestors.
MouseMoveTimers(s, m) ==
  IF s.hung THEN s
  ELSE IF s.activeIndex[m] = s.childIndex[m] THEN CancelTimers(s, m)
  ELSE MouseMoveOpen(MouseMoveClose(s, m), m)

\* Lines 1886-1894, after the assignment of activeIndex.
MouseMoveSync(s, m) == SyncAncestors(s, s.parentMenu[m], NMenus)

\* _evtMouseMove
evtMouseMove(s, m, hit) ==
  IF hit = s.activeIndex[m] THEN s
  ELSE MouseMoveTimers(MouseMoveSync(SetActiveIndex(s, m, hit), m), m)

\* Lines 1932-1945 without the call of _startCloseTimer.
MouseLeaveChildNoTimer(s, m, overChild) ==
  IF s.childMenu[m] = Null THEN SetActiveIndex(s, m, -1)
  ELSE IF overChild THEN CancelCloseTimer(s, m)
  ELSE SetActiveIndex(s, m, -1)

\* Lines 1932-1945, after the open timer is cancelled; overChild is the hit
\* test of the child menu's node.
MouseLeaveChild(s, m, overChild) ==
  IF s.childMenu[m] = Null THEN SetActiveIndex(s, m, -1)
  ELSE IF overChild THEN CancelCloseTimer(s, m)
  ELSE StartCloseTimer(SetActiveIndex(s, m, -1), m)

\* _evtMouseLeave
evtMouseLeave(s, m, overChild) ==
  MouseLeaveChild(CancelOpenTimer(s, m), m, overChild)

\* `if (this._childMenu) Private.activateFirstSelectable(...)`, which an
\* exception out of _openChildMenu skips.
ActivateChildFirst(s, m) ==
  IF ~s.threw /\ s.childMenu[m] # Null
  THEN activateFirstSelectable(s, s.childMenu[m])
  ELSE s

\* Lines 1978-1989, for an active item.
EnterOnActive(s, m) ==
  IF ItemType(activeItem(s, m)) # "submenu"
  THEN TriggerItem(s, m, activeItem(s, m))
  ELSE ActivateChildFirst(OpenChildMenu(s, m), m)

\* case 13, Enter
KeyEnter(s, m) ==
  IF activeItem(s, m) = Null THEN s ELSE EnterOnActive(CancelTimers(s, m), m)

\* case 39, Right Arrow
KeyRight(s, m) ==
  IF activeItem(s, m) = Null \/ ItemType(activeItem(s, m)) # "submenu" THEN s
  ELSE ActivateChildFirst(OpenChildMenu(CancelTimers(s, m), m), m)

\* A Left Arrow that closes the menu whether it is a submenu or not.
KeyLeftAlways(s, m) == Close(s, m)

\* case 37, Left Arrow
KeyLeft(s, m) == IF s.parentMenu[m] # Null THEN Close(s, m) ELSE s

\* An Escape that closes the parent of the menu, and the menu with it.
KeyEscapeParent(s, m) ==
  IF s.parentMenu[m] # Null THEN Close(s, s.parentMenu[m]) ELSE Close(s, m)

\* case 27, Escape: "Close this menu."
KeyEscape(s, m) == Close(s, m)

\* _evtKeyDown
evtKeyDown(s, m, kc) ==
  IF s.childMenu[m] # Null THEN s
  ELSE CASE kc = 13 -> KeyEnter(s, m)
         [] kc = 27 -> KeyEscape(s, m)
         [] kc = 37 -> KeyLeft(s, m)
         [] kc = 38 -> activatePrevSelectable(s, m)
         [] kc = 39 -> KeyRight(s, m)
         [] kc = 40 -> activateNextSelectable(s, m)
         [] OTHER   -> s

\* _evtKeyPress
evtKeyPress(s, m, char) ==
  IF s.childMenu[m] # Null THEN s ELSE activateNextMnemonic(s, m, char)

\* The loop of lines 2091-2097 down the childMenu links; hit is the set of
\* menus whose node the pointer is over.
RECURSIVE HitInChain(_, _, _, _)
HitInChain(s, menu, hit, fuel) ==
  IF menu = Null THEN "miss"
  ELSE IF menu \in hit THEN "hit"
  ELSE IF fuel = 0 THEN "hung"
  ELSE HitInChain(s, s.childMenu[menu], hit, fuel - 1)

\* Lines 2098-2101, on the outcome of the loop.
MouseDownOutcome(s, m, r) ==
  CASE r = "hit"  -> s
    [] r = "hung" -> [s EXCEPT !.hung = TRUE]
    [] OTHER      -> Close(s, m)

\* _evtMouseDown
evtMouseDown(s, m, hit) ==
  IF s.parentMenu[m] # Null THEN s
  ELSE MouseDownOutcome(s, m, HitInChain(s, m, hit, NMenus))

\* handleEvent, for the events listened to on the document.
handleEvent(s, m, event) ==
  CASE event.type = "keydown"   -> evtKeyDown(s, m, event.keyCode)
    [] event.type = "keypress"  -> evtKeyPress(s, m, event.char)
    [] event.type = "mousedown" -> evtMouseDown(s, m, event.hit)

(***************************************************************************)
(* An event on the document goes to every menu that listens there, in the  *)
(* order the listeners were installed; a listener removed by an earlier    *)
(* one is not run, and an exception in one does not stop the others; nor   *)
(* does event.stopPropagation(), which keeps the event from other nodes    *)
(* only.                                                                   *)
(***************************************************************************)
DispatchOne(s, m, event) ==
  IF s.attached[m] THEN handleEvent([s EXCEPT !.threw = FALSE], m, event) ELSE s

RECURSIVE Dispatch(_, _, _)
Dispatch(s, todo, event) ==
  IF todo = <<>> \/ s.hung THEN s
  ELSE Dispatch(DispatchOne(s, Head(todo), event), Tail(todo), event)

(***************************************************************************)
(* The public operations.                                                  *)
(***************************************************************************)
\* set activeIndex with the host's number, given in halves.
SetActiveIndexHalf(s, m, h) == SetActiveIndex(s, m, FloorHalf(h))

\* indexOf(items, value)
RECURSIVE indexOf(_, _, _)
indexOf(seq, value, i) ==
  IF i >= Len(seq) THEN -1
  ELSE IF At(seq, i) = value THEN i
  ELSE indexOf(seq, value, i + 1)

\* set activeItem
SetActiveItem(s, m, it) == SetActiveIndex(s, m, indexOf(s.items[m], it, 0))

\* "Close the menu if it's attached."
CloseIfAttached(s, m) == IF s.attached[m] THEN Close(s, m) ELSE s

\* The clamp with the index rounded up instead of down.
ClampIndexCeil(index, n) == Max(0, Min((index + 1) \div 2, n))

\* The clamp of line 1599, for an index given in halves.
ClampIndex(index, n) == Max(0, Min(FloorHalf(index), n))

\* insertItem that puts the new node at the end of the node vector.
InsertAtIndexNodeLast(s, m, i, it) ==
  [s EXCEPT !.activeIndex[m] = -1,
            !.items[m] = InsertAt(@, i, it),
            !.nodes[m] = Append(@, it),
            !.hiddenClass[m] = Append(@, FALSE)]

\* Lines 1594-1611 for the clamped index i.  The node that createItemNode
\* makes is written as the item it is made for.
InsertAtIndex(s, m, i, it) ==
  [s EXCEPT !.activeIndex[m] = -1,
            !.items[m] = InsertAt(@, i, it),
            !.nodes[m] = InsertAt(@, i, it),
            !.hiddenClass[m] = InsertAt(@, i, FALSE)]

\* insertItem; index is given in halves.
insertItem(s, m, index, it) ==
  InsertAtIndex(CloseIfAttached(s, m), m,
                ClampIndex(index, Len(s.items[m])), it)

\* addItem
addItem(s, m, it) == insertItem(s, m, 2 * Len(s.items[m]), it)

\* Lines 1634-1645 for the index i.
RemoveAtIndex(s, m, i) ==
  [s EXCEPT !.activeIndex[m] = -1,
            !.items[m] = RemoveAt(@, i),
            !.nodes[m] = RemoveAt(@, i),
            !.hiddenClass[m] = RemoveAt(@, i)]

\* removeItem that closes the menu before it tests the index.
removeItemCloseFirst(s, m, index) ==
  IF FloorHalf(index) < 0 \/ FloorHalf(index) >= Len(s.items[m])
  THEN CloseIfAttached(s, m)
  ELSE RemoveAtIndex(CloseIfAttached(s, m), m, FloorHalf(index))

\* removeItem; index is given in halves.
removeItem(s, m, index) ==
  IF FloorHalf(index) < 0 \/ FloorHalf(index) >= Len(s.items[m]) THEN s
  ELSE RemoveAtIndex(CloseIfAttached(s, m), m, FloorHalf(index))

\* clearItems
clearItems(s, m) ==
  [CloseIfAttached(s, m) EXCEPT !.activeIndex[m] = -1,
                                !.items[m] = <<>>,
                                !.nodes[m] = <<>>,
                                !.hiddenClass[m] = <<>>]

\* dispose: close(), then the item and node vectors are cleared directly.
dispose(s, m) ==
  [Close(s, m) EXCEPT !.items[m] = <<>>,
                      !.nodes[m] = <<>>,
                      !.hiddenClass[m] = <<>>,
                      !.disposed[m] = TRUE]

\* An open-timer callback that opens the nested menu of the item that was
\* under the pointer when the timer was started.
openTimerCallbackAsStarted(s, m) ==
  OpenChildMenu([s EXCEPT !.openPending[m] = @ - 1, !.openTimerID[m] = 0,
                          !.activeIndex[m] = s.openTimerItem[m],
                          !.openTimerItem[m] = -1,
                          !.timers = Ran(@, <<"open", m>>)], m)

\* The callbacks of _startOpenTimer and _startCloseTimer.
openTimerCallback(s, m) ==
  OpenChildMenu([s EXCEPT !.openPending[m] = @ - 1, !.openTimerID[m] = 0,
                          !.openTimerItem[m] = -1,
                          !.timers = Ran(@, <<"open", m>>)], m)

closeTimerCallback(s, m) ==
  CloseChildMenu([s EXCEPT !.closePending[m] = @ - 1, !.closeTimerID[m] = 0,
                           !.timers = Ran(@, <<"close", m>>)], m)

(***************************************************************************)
(* The inputs of the model.                                                *)
(***************************************************************************)
\* Indices the host passes, in halves: -1/2, every index and a half that is
\* in range for a full menu, and MaxItems.
HostIndexes == {-1, 2 * MaxItems} \cup {2 * i + 1 : i \in 0..(MaxItems - 1)}
\* Results of the hit test of the item nodes of menu m.
HitIndexes(m) == (-1)..(Len(items[m]) - 1)
\* Enter, Escape, the four arrows, and a key the menu does not handle.
KeyCodes == {13, 27, 37, 38, 39, 40, 65}
\* The characters typed.
TypedChars == {"o", "S", "x"}
\* The items the host inserts.
InsertItems == {4}

\* The positions the host asks for and the pointer reaches, the sizes of a
\* menu node, the scroll offsets and the size of the viewport, in pixels:
\* a position can lie left of or above the page, inside the viewport or past
\* its far edge, and a menu can be smaller or larger than the viewport.
Coordinates == {-1, 2, 5, 9}
Extents == {4, 8}
PageOffsets == {0, 1}
ViewportExtents == {6}

Geometries ==
  [x : Coordinates, y : Coordinates, forceX : BOOLEAN, forceY : BOOLEAN,
   px : PageOffsets, py : PageOffsets,
   cw : ViewportExtents, ch : ViewportExtents,
   width : Extents, height : Extents]

\* A menu that fits where the host asks for it.
PlainGeometry ==
  [x |-> 2, y |-> 2, forceX |-> FALSE, forceY |-> FALSE, px |-> 0, py |-> 0,
   cw |-> 6, ch |-> 6, width |-> 3, height |-> 3]

\* The arguments of open() and what the browser measures during the call.
\* Only the application "placed" varies them.
OpenArguments(w) == IF w = "placed" THEN Geometries ELSE {PlainGeometry}
\* The items whose `disabled` the host assigns, and those whose `submenu`.
EditedItems == {4}
RetargetedItems == {1}

(***************************************************************************)
(* The specification.                                                      *)
(***************************************************************************)
\* The fields of the menus and of the items after construction, and the
\* event loop with nothing in it.
Constructed ==
  /\ activeIndex = [m \in Menus |-> -1]
  /\ childIndex = [m \in Menus |-> -1]
  /\ childMenu = [m \in Menus |-> Null]
  /\ parentMenu = [m \in Menus |-> Null]
  /\ openTimerID = [m \in Menus |-> 0]
  /\ closeTimerID = [m \in Menus |-> 0]
  /\ openPending = [m \in Menus |-> 0]
  /\ openTimerItem = [m \in Menus |-> -1]
  /\ closePending = [m \in Menus |-> 0]
  /\ timers = <<>>
  /\ attached = [m \in Menus |-> FALSE]
  /\ listeners = <<>>
  /\ itemDisabled = [it \in ItemIds |-> FALSE]
  /\ itemHidden = [it \in ItemIds |-> ItemHidden0(it)]
  /\ itemSubmenu = [it \in ItemIds |-> ItemSubmenu0(it)]
  /\ disposed = [m \in Menus |-> FALSE]
  /\ leftMenu = Null
  /\ leftBelow = {}
  /\ triggeredLog = <<>>
  /\ closedLog = <<>>
  /\ styleLog = <<>>

\* createItemNode gives each node the class ITEM_CLASS alone (1190).
FreshNodes(its) == [i \in 1..Len(its) |-> FALSE]

Init ==
  /\ world \in Worlds
  /\ items = [m \in Menus |-> Template(world, m)]
  /\ nodes = items
  /\ hiddenClass = [m \in Menus |-> FreshNodes(items[m])]
  /\ Constructed

\* In s the menu the pointer left has no child, and the menus that were
\* below it are closed.
Settled(s) ==
  /\ s.leftMenu # Null
  /\ s.childMenu[s.leftMenu] = Null
  /\ \A x \in s.leftBelow : ~s.attached[x]

\* The step that takes the state to s, the result of a handler that ended.
Becomes(s0) == \E s \in {s0} :
  /\ ~s.hung
  /\ world' = world
  /\ items' = s.items
  /\ nodes' = s.nodes
  /\ hiddenClass' = s.hiddenClass
  /\ activeIndex' = s.activeIndex
  /\ childIndex' = s.childIndex
  /\ childMenu' = s.childMenu
  /\ parentMenu' = s.parentMenu
  /\ openTimerID' = s.openTimerID
  /\ closeTimerID' = s.closeTimerID
  /\ openPending' = s.openPending
  /\ openTimerItem' = s.openTimerItem
  /\ closePending' = s.closePending
  /\ timers' = s.timers
  /\ attached' = s.attached
  /\ listeners' = s.listeners
  /\ itemDisabled' = s.itemDisabled
  /\ itemHidden' = s.itemHidden
  /\ itemSubmenu' = s.itemSubmenu
  /\ disposed' = s.disposed
  /\ leftMenu' = s.leftMenu
  /\ leftBelow' = (IF Settled(s) THEN {} ELSE s.leftBelow)
  /\ triggeredLog' = s.triggeredLog
  /\ closedLog' = s.closedLog
  /\ styleLog' = s.styleLog

\* The host calls nothing on a menu it has disposed of, and disposes of a
\* menu only when no item of a menu leads to it.
Live == {m \in Menus : ~disposed[m]}

Referenced(menu) ==
  \E m \in Menus : \E i \in 1..Len(items[m]) : itemSubmenu[items[m][i]] = menu

InsertItem == \E m \in Live, h \in HostIndexes, it \in InsertItems :
  /\ world = "built"
  /\ Len(items[m]) < MaxItems
  /\ Becomes(insertItem(Cur, m, h, it))

AddItem == \E m \in Live, it \in InsertItems :
  /\ world = "built"
  /\ Len(items[m]) < MaxItems
  /\ Becomes(addItem(Cur, m, it))

RemoveItem == \E m \in Live, h \in HostIndexes :
  /\ world = "built"
  /\ Becomes(removeItem(Cur, m, h))

ClearItems == \E m \in Live :
  /\ world = "built"
  /\ Becomes(clearItems(Cur, m))

AssignActiveIndex == \E m \in Live, h \in HostIndexes :
  \E s \in {SetActiveIndexHalf(Cur, m, h)} : Becomes(s)

AssignActiveItem == \E m \in Live, it \in InsertItems :
  /\ world = "built"
  /\ Becomes(SetActiveItem(Cur, m, it))

OpenMenu == \E m \in Live, g \in OpenArguments(world) :
  \E s \in {open(Cur, m, g)} : Becomes(s)

CloseMenu == \E m \in Live : \E s \in {Close(Cur, m)} : Becomes(s)

Dispose == \E m \in Live :
  /\ world = "built"
  /\ ~Referenced(m)
  /\ Becomes(dispose(Cur, m))

\* The mouse events reach a menu through the listeners on its node, which
\* are there while it is attached.
MouseUp == \E m \in Menus, button \in {0, 2} : \E i \in HitIndexes(m) :
  /\ attached[m]
  /\ Becomes(evtMouseUp(Cur, m, button, i))

MouseMove == \E m \in Menus : \E i \in HitIndexes(m) :
  /\ attached[m]
  /\ Becomes(evtMouseMove(Cur, m, i))

MouseLeave == \E m \in Menus, overChild \in BOOLEAN :
  /\ attached[m]
  /\ overChild => childMenu[m] # Null /\ attached[childMenu[m]]
  /\ Becomes(evtMouseLeave(Cur, m, overChild))

KeyDown == \E kc \in KeyCodes :
  /\ listeners # <<>>
  /\ Becomes(Dispatch(Cur, listeners, [type |-> "keydown", keyCode |-> kc]))

KeyPress == \E c \in TypedChars :
  /\ listeners # <<>>
  /\ Becomes(Dispatch(Cur, listeners, [type |-> "keypress", char |-> c]))

MouseDown == \E hit \in {{}} \cup {{m} : m \in {x \in Menus : attached[x]}} :
  /\ listeners # <<>>
  /\ Becomes(Dispatch(Cur, listeners, [type |-> "mousedown", hit |-> hit]))

OpenTimerFires == \E m \in Menus :
  /\ Due(timers, <<"open", m>>)
  /\ Becomes(openTimerCallback(Cur, m))

CloseTimerFires == \E m \in Menus :
  /\ Due(timers, <<"close", m>>)
  /\ Becomes(closeTimerCallback(Cur, m))

\* The host assigns a field of a MenuItem.
AssignDisabled == \E it \in EditedItems, b \in BOOLEAN :
  /\ world = "edited"
  /\ Becomes([Cur EXCEPT !.itemDisabled[it] = b])

AssignSubmenu == \E it \in RetargetedItems : \E menu \in {Null, ItemSubmenu0(it)} :
  /\ world = "edited"
  /\ Becomes([Cur EXCEPT !.itemSubmenu[it] = menu])

\* An 'update-request' message is delivered to a menu: sendMessage is open
\* to the host as it is to openRootMenu and openSubmenu.
UpdateRequest == \E m \in Live : \E s \in {onUpdateRequest(Cur, m)} : Becomes(s)

Next ==
  \/ InsertItem
  \/ AddItem
  \/ RemoveItem
  \/ ClearItems
  \/ AssignActiveIndex
  \/ AssignActiveItem
  \/ OpenMenu
  \/ CloseMenu
  \/ Dispose
  \/ MouseUp
  \/ MouseMove
  \/ MouseLeave
  \/ KeyDown
  \/ KeyPress
  \/ MouseDown
  \/ OpenTimerFires
  \/ CloseTimerFires
  \/ AssignDisabled
  \/ AssignSubmenu
  \/ UpdateRequest

Spec == Init /\ [][Next]_vars

(***************************************************************************)
(* The rendering of one menu, over every sequence of up to MaxRender items *)
(* of the kinds that matter to it: a normal item, a separator, a hidden    *)
(* item and a hidden separator.                                            *)
(***************************************************************************)
RenderItems == {4, 5, 6, 7}

RenderSeqs == UNION {[1..n -> RenderItems] : n \in 0..MaxRender}

RenderInit ==
  /\ world = "render"
  /\ items \in {[m \in Menus |-> IF m = 1 THEN q ELSE <<>>] : q \in RenderSeqs}
  /\ nodes = items
  /\ hiddenClass = [m \in Menus |-> FreshNodes(items[m])]
  /\ Constructed

RenderNext == UpdateRequest

RenderSpec == RenderInit /\ [][RenderNext]_vars

(***************************************************************************)
(* The placement of the menus: the host opens root menus with every        *)
(* geometry of Geometries and closes them, and the user opens submenus     *)
(* with the keyboard.                                                      *)
(***************************************************************************)
PlaceInit ==
  /\ world = "placed"
  /\ items = [m \in Menus |-> Template(world, m)]
  /\ nodes = items
  /\ hiddenClass = [m \in Menus |-> FreshNodes(items[m])]
  /\ Constructed

PlaceNext ==
  \/ OpenMenu
  \/ CloseMenu
  \/ KeyDown

PlaceSpec == PlaceInit /\ [][PlaceNext]_vars

(***************************************************************************)
(* The pointer leaving a menu as the last input: the user opens menus with *)
(* the pointer and the keyboard, and once the pointer has left a menu with *)
(* an open child for a place outside that child, only the timers run.  The *)
(* event loop runs every callback whose delay has passed.                  *)
(***************************************************************************)
LeaveWorlds == {"shared", "cyclic"}

LeaveInit ==
  /\ world \in LeaveWorlds
  /\ items = [m \in Menus |-> Template(world, m)]
  /\ nodes = items
  /\ hiddenClass = [m \in Menus |-> FreshNodes(items[m])]
  /\ Constructed

\* The menus reached from m by following the links f, m included.
RECURSIVE Reach(_, _, _)
Reach(f, m, fuel) ==
  IF m = Null THEN {}
  ELSE IF fuel = 0 THEN {m}
  ELSE {m} \cup Reach(f, f[m], fuel - 1)

\* The menus below m: its open child, the child's open child, and so on.
Below(s, m) == Reach(s.childMenu, s.childMenu[m], NMenus)

\* 'mouseleave' on m with the pointer outside the node of its open child,
\* and no input after it.
PointerLeaves == \E m \in Menus :
  /\ leftMenu = Null
  /\ attached[m]
  /\ childMenu[m] # Null
  /\ Becomes([evtMouseLeave(Cur, m, FALSE) EXCEPT
               !.leftMenu = m, !.leftBelow = Below(Cur, m)])

LeaveInput ==
  /\ leftMenu = Null
  /\ (OpenMenu \/ MouseUp \/ MouseMove \/ MouseLeave \/ KeyDown)

LeaveNext ==
  \/ LeaveInput
  \/ PointerLeaves
  \/ OpenTimerFires
  \/ CloseTimerFires

\* The k-th smallest member of the set S of numbers.
Nth(S, k) == CHOOSE x \in S : Cardinality({y \in S : y < x}) = k - 1

\* What can be left of the event loop q when callbacks are taken out of it.
Remainders(q) ==
  {[k \in 1..Cardinality(S) |-> q[Nth(S, k)]] : S \in SUBSET (1..Len(q))}

\* A step of the event loop, as the event loop shows it: the oldest callback
\* has run and is gone, with the callbacks it cancelled (1786-1787,
\* 1805-1806).  No callback starts a timer.
RunsCallback ==
  /\ timers # <<>>
  /\ timers' \in Remainders(Tail(timers))

\* The callback the event loop runs next returns.
HeadReturns ==
  \A m \in Menus :
    /\ Due(timers, <<"open", m>>) => ~openTimerCallback(Cur, m).hung
    /\ Due(timers, <<"close", m>>) => ~closeTimerCallback(Cur, m).hung

\* The event loop runs the oldest callback once its delay has passed.  Where
\* HeadReturns holds, a step of OpenTimerFires or CloseTimerFires is possible
\* whenever the event loop holds a callback, and after the last input these
\* are the only steps that change the event loop.
LeaveSpec ==
  /\ LeaveInit
  /\ [][LeaveNext]_vars
  /\ WF_timers(RunsCallback)

(***************************************************************************)
(* The properties.                                                         *)
(***************************************************************************)
\* C1: whatever insertItem, addItem, removeItem and clearItems calls were
\* made, with whatever indices, the item vector and the node vector of every
\* menu have the same length and the node at each position is the one made
\* for the item at that position.
C1_ItemsNodesPaired ==
  \A m \in Menus :
    /\ Len(items[m]) = Len(nodes[m])
    /\ \A i \in 1..Len(items[m]) : nodes[m][i] = items[m][i]

\* C1 witness: menu 1 began as <<1>> and menu 2 as <<4>>; an insert in front
\* and a removal behind it, a clear, and two inserts have happened.
C1_Witness ==
  /\ world = "built"
  /\ items[1] = <<4>>
  /\ items[2] = <<>>
  /\ items[3] = <<4, 4>>

\* activeIndex of menu m is -1 or the index of a selectable item of m.
ActiveIndexValid(m) ==
  \/ activeIndex[m] = -1
  \/ /\ 0 <= activeIndex[m]
     /\ activeIndex[m] < Len(items[m])
     /\ isSelectable(Cur, At(items[m], activeIndex[m]))

\* C2: in every reachable state the activeIndex of every menu is -1 or an
\* in-range index whose item is selectable (not a separator, not disabled,
\* not hidden), and assigning activeIndex any number leaves it so.
C2_ActiveIndexSelectable ==
  /\ \A m \in Menus : ActiveIndexValid(m)
  /\ \A m \in Menus : \A h \in HostIndexes :
       \E s \in {SetActiveIndexHalf(Cur, m, h)} :
         /\ ~s.threw
         /\ \/ s.activeIndex[m] = -1
            \/ /\ s.activeIndex[m] = FloorHalf(h)
               /\ 0 <= FloorHalf(h)
               /\ FloorHalf(h) < Len(items[m])
               /\ isSelectable(Cur, At(items[m], FloorHalf(h)))

\* C3: in every reachable state, for every menu M, M.childMenu is non-null
\* exactly when M.childIndex is not -1, and then the item at M.childIndex is
\* of type submenu and its nested menu is M.childMenu.
C3_ChildIndexMatchesChildMenu ==
  \A m \in Menus :
    /\ (childMenu[m] # Null) <=> (childIndex[m] # -1)
    /\ childMenu[m] # Null =>
         /\ 0 <= childIndex[m]
         /\ childIndex[m] < Len(items[m])
         /\ ItemType(At(items[m], childIndex[m])) = "submenu"
         /\ itemSubmenu[At(items[m], childIndex[m])] = childMenu[m]

\* C4: in every reachable state, a menu M with a non-null childMenu C has
\* C.parentMenu = M, so no menu is the childMenu of two menus at once, and a
\* menu C with a non-null parentMenu P has P.childMenu = C.
C4_LinksSymmetric ==
  /\ \A m \in Menus : childMenu[m] # Null => parentMenu[childMenu[m]] = m
  /\ \A c \in Menus : parentMenu[c] # Null => childMenu[parentMenu[c]] = c

\* Following the links f from m comes back to m.
OnCycle(f, m) == f[m] # Null /\ m \in Reach(f, f[m], NMenus)

\* C5: following parentMenu links, or childMenu links, from any menu never
\* revisits a menu, and the menus reached by parentMenu links include
\* exactly one without a parentMenu.
C5_ChainsAcyclic ==
  \A m \in Menus :
    /\ ~OnCycle(parentMenu, m)
    /\ ~OnCycle(childMenu, m)
    /\ Cardinality({r \in Reach(parentMenu, m, NMenus) : parentMenu[r] = Null}) = 1

\* The menus from m up the parentMenu links of the current state, in order.
RECURSIVE PathUp(_, _)
PathUp(m, fuel) ==
  IF m = Null \/ fuel = 0 THEN <<>>
  ELSE <<m>> \o PathUp(parentMenu[m], fuel - 1)

\* The last menu of that path, and the menus of the chain it is the root of.
RootOf(m) == PathUp(m, NMenus)[Len(PathUp(m, NMenus))]
ChainOf(m) == Reach(childMenu, RootOf(m), NMenus) \cup Reach(parentMenu, m, NMenus)

\* The pointer releases that trigger: the left button over a selectable item
\* that is not a submenu item, in a displayed menu.
ClickTriggers ==
  {c \in Menus \X (0..(MaxItems - 1)) :
     /\ attached[c[1]]
     /\ c[2] < Len(items[c[1]])
     /\ isSelectable(Cur, At(items[c[1]], c[2]))
     /\ ItemType(At(items[c[1]], c[2])) # "submenu"}

\* The menus in which Enter triggers: displayed, without an open child, the
\* active item selectable and not a submenu item.
EnterTriggers ==
  {m \in Menus :
     /\ attached[m]
     /\ childMenu[m] = Null
     /\ activeItem(Cur, m) # Null
     /\ isSelectable(Cur, activeItem(Cur, m))
     /\ ItemType(activeItem(Cur, m)) # "submenu"}

\* The handler ended and emitted 'triggered' with item on m and on each menu
\* up the parentMenu links from m, in that order, and on nothing else.
EmittedUpTheChain(r, m, item) ==
  /\ ~r.hung
  /\ r.triggeredLog = [k \in 1..Len(PathUp(m, NMenus)) |->
                         <<PathUp(m, NMenus)[k], item>>]

\* C6: a left-button release over a selectable non-submenu item, or Enter
\* with such an item active, emits 'triggered' with the item exactly once on
\* the menu and once on each of its ancestors, from the menu up to the root,
\* and on no other menu.
C6_TriggeredUpTheChain ==
  /\ \A c \in ClickTriggers :
       EmittedUpTheChain(evtMouseUp(Cur, c[1], 0, c[2]), c[1],
                         At(items[c[1]], c[2]))
  /\ \A m \in EnterTriggers :
       EmittedUpTheChain(evtKeyDown(Cur, m, 13), m, activeItem(Cur, m))

\* The number of times menu m occurs in the log of 'closed' emissions.
ClosedCount(log, m) == Cardinality({k \in 1..Len(log) : log[k] = m})

\* The handler ended with every menu of the chain of m closed and unlinked,
\* and 'closed' emitted once by the root.
ChainClosed(r, m) ==
  /\ ~r.hung
  /\ \A x \in ChainOf(m) :
       /\ ~r.attached[x]
       /\ r.parentMenu[x] = Null
       /\ r.childMenu[x] = Null
       /\ r.childIndex[x] = -1
  /\ ClosedCount(r.closedLog, RootOf(m)) = 1

\* C7: after an item is triggered at any depth of an open chain, every menu
\* of the chain, descendants of the triggering menu included, is closed with
\* its parent and child links cleared, and the root has emitted 'closed'
\* exactly once.
C7_TriggerClosesChain ==
  /\ \A c \in ClickTriggers : ChainClosed(evtMouseUp(Cur, c[1], 0, c[2]), c[1])
  /\ \A m \in EnterTriggers : ChainClosed(evtKeyDown(Cur, m, 13), m)

\* close() twice in succession on menu m ends in the state close() once
\* ends in, the second call emitting nothing, with one 'closed' by m in all.
CloseTwiceAsOnce(m) ==
  /\ Close(Close(Cur, m), m) = Close(Cur, m)
  /\ ClosedCount(Close(Cur, m).closedLog, m) = 1

\* C8 as claimed: close() on a menu that is not displayed changes no state
\* and emits nothing, and close() twice on a displayed menu is as close()
\* once, with 'closed' emitted exactly once.
C8_CloseOnClosedNoOp ==
  \A m \in Menus :
    /\ ~attached[m] => Close(Cur, m) = Cur
    /\ attached[m] => CloseTwiceAsOnce(m)

\* C8 amended: close() on a menu that is not displayed emits no 'closed' on
\* it and leaves it not displayed; when the menu has no child and no parent
\* link, the only state it changes is the menu's activeIndex, which becomes
\* -1; and close() twice on a displayed menu is as close() once, with
\* 'closed' emitted exactly once by the menu.
C8_CloseOnClosedResetsActiveIndex ==
  \A m \in Menus :
    /\ ~attached[m] =>
         /\ ClosedCount(Close(Cur, m).closedLog, m) = 0
         /\ ~Close(Cur, m).attached[m]
         /\ (childMenu[m] = Null /\ parentMenu[m] = Null) =>
               Close(Cur, m) = [Cur EXCEPT !.activeIndex[m] = -1]
    /\ attached[m] => CloseTwiceAsOnce(m)

\* C8 witness: a close has just emitted 'closed' on a menu with an open
\* child, both are closed now, and a menu that is not displayed has an
\* activeIndex for close() to reset.
C8_Witness ==
  /\ Len(closedLog) = 2
  /\ \A k \in 1..2 : ~attached[closedLog[k]]
  /\ \E n \in Menus :
       /\ ~attached[n]
       /\ activeIndex[n] # -1
       /\ childMenu[n] = Null
       /\ parentMenu[n] = Null

\* What state s holds of menu x.
MenuState(s, x) ==
  <<s.items[x], s.activeIndex[x], s.childIndex[x], s.childMenu[x],
    s.parentMenu[x], s.attached[x], s.openTimerID[x], s.closeTimerID[x]>>

\* The positions of a pointer-down: over no menu, or over one displayed menu.
PressPositions == {{}} \cup {{x} : x \in {y \in Menus : attached[y]}}

\* The state after a pointer-down at position hit has been handled by every
\* menu that listens for it.
AfterPress(hit) ==
  Dispatch(Cur, listeners, [type |-> "mousedown", hit |-> hit])

\* C9: a pointer-down inside the root or any open descendant of a chain
\* changes no state of the menus of the chain; a pointer-down inside none of
\* them leaves the root and every descendant closed and unlinked; and the
\* handler of a menu that has a parent does nothing.
C9_OutsidePressClosesChain ==
  \A hit \in PressPositions :
    /\ ~AfterPress(hit).hung
    /\ \A m \in Menus : attached[m] =>
         IF hit \cap ChainOf(m) # {}
         THEN \A x \in ChainOf(m) :
                MenuState(AfterPress(hit), x) = MenuState(Cur, x)
         ELSE \A x \in ChainOf(m) :
                /\ ~AfterPress(hit).attached[x]
                /\ AfterPress(hit).parentMenu[x] = Null
                /\ AfterPress(hit).childMenu[x] = Null
    /\ \A m \in Menus : parentMenu[m] # Null =>
         evtMouseDown(Cur, m, hit) = Cur

\* The key events: every key code with keydown, every character typed.
KeyEvents ==
  {[type |-> "keydown", keyCode |-> kc] : kc \in KeyCodes}
    \cup {[type |-> "keypress", char |-> c] : c \in TypedChars}

\* The listeners that have no open child menu when the event is dispatched.
LeafListeners == SelectSeq(listeners, LAMBDA x : childMenu[x] = Null)

\* C10: the handler of a key-down or key-press on a menu that has an open
\* child menu changes no state, and an event dispatched to all displayed
\* menus has the effect of the handlers of the menus that are leaves when
\* it is dispatched, and of no other.
C10_OnlyLeafHandlesKeys ==
  \A event \in KeyEvents :
    /\ \A m \in Menus : (attached[m] /\ childMenu[m] # Null) =>
         handleEvent(Cur, m, event) = Cur
    /\ Dispatch(Cur, listeners, event) = Dispatch(Cur, LeafListeners, event)

\* The displayed menus without an open child: those that handle a key.
Leaves == {m \in Menus : attached[m] /\ childMenu[m] = Null}

\* The state after a key-down with key code kc has been handled by every
\* menu that listens for it.
AfterKey(kc) == Dispatch(Cur, listeners, [type |-> "keydown", keyCode |-> kc])

C12_LeftArrowClosesSubmenu ==
  \A m \in Leaves :
    \E r \in {evtKeyDown(Cur, m, 37)} :
      IF parentMenu[m] = Null THEN r = Cur
      ELSE /\ ~r.attached[m]
           /\ r.parentMenu[m] = Null
           /\ r.closedLog = <<m>>
           /\ r.triggeredLog = <<>>
           /\ r.childMenu[parentMenu[m]] = Null
           /\ r.childIndex[parentMenu[m]] = -1
           /\ r.attached[parentMenu[m]] = attached[parentMenu[m]]
           /\ r.activeIndex[parentMenu[m]] = activeIndex[parentMenu[m]]
           /\ r.parentMenu[parentMenu[m]] = parentMenu[parentMenu[m]]
           /\ \A x \in Menus \ {m, parentMenu[m]} :
                MenuState(r, x) = MenuState(Cur, x)

\* C12 witness: a displayed leaf whose displayed parent has the submenu item
\* active, and a displayed root that is a leaf.
C12_Witness ==
  /\ \E m \in Leaves :
       /\ parentMenu[m] # Null
       /\ attached[parentMenu[m]]
       /\ childMenu[parentMenu[m]] = m
       /\ activeIndex[parentMenu[m]] = childIndex[parentMenu[m]]
  /\ \E m \in Leaves : parentMenu[m] = Null /\ activeIndex[m] # -1

\* The index of the first selectable item of menu m, or -1.
FirstSelectable(m) ==
  IF \E i \in 0..(Len(items[m]) - 1) : isSelectable(Cur, At(items[m], i))
  THEN CHOOSE i \in 0..(Len(items[m]) - 1) :
         /\ isSelectable(Cur, At(items[m], i))
         /\ \A j \in 0..(i - 1) : ~isSelectable(Cur, At(items[m], j))
  ELSE -1

\* The leaves whose active item is a submenu item with a nested menu.
SubmenuLeaves == {m \in Leaves : ValidSubmenu(Cur, activeItem(Cur, m))}

\* The handler linked and displayed the nested menu of the active item of m
\* as the child of m and emitted no 'triggered'.
ChildOpened(r, m) ==
  /\ r.childMenu[m] = itemSubmenu[activeItem(Cur, m)]
  /\ r.childIndex[m] = activeIndex[m]
  /\ r.parentMenu[itemSubmenu[activeItem(Cur, m)]] = m
  /\ r.attached[itemSubmenu[activeItem(Cur, m)]]
  /\ r.triggeredLog = <<>>

\* C13: Right Arrow or Enter handled by a leaf whose active item is a submenu
\* item with a nested menu opens that menu as the child of the leaf (linked
\* and displayed), sets the child's activeIndex to the index of its first
\* selectable item, or -1 if it has none, and emits no 'triggered'.
C13_OpenActivatesFirst ==
  \A m \in SubmenuLeaves : \A kc \in {13, 39} :
    \E r \in {evtKeyDown(Cur, m, kc)} :
      /\ ChildOpened(r, m)
      /\ r.activeIndex[itemSubmenu[activeItem(Cur, m)]] =
           FirstSelectable(itemSubmenu[activeItem(Cur, m)])

\* The calls that change the items of menu m: insertItem and addItem with
\* any index and item, removeItem with an index in range, clearItems.
ItemMutations(m) ==
  {insertItem(Cur, m, h, it) : h \in HostIndexes, it \in InsertItems}
    \cup {addItem(Cur, m, it) : it \in InsertItems}
    \cup {removeItem(Cur, m, h) :
            h \in {x \in HostIndexes : 0 <= FloorHalf(x)
                                       /\ FloorHalf(x) < Len(items[m])}}
    \cup {clearItems(Cur, m)}

\* C14: insertItem, removeItem with an index in range and clearItems leave
\* the menu closed with activeIndex -1 whether it was displayed or not, and
\* on a displayed menu they have the effects of close(): the menus down its
\* childMenu links are closed, its link to a parent is cleared on both
\* sides, and the menu has emitted 'closed' once.
C14_MutationClosesMenu ==
  \A m \in Menus : \A r \in ItemMutations(m) :
    /\ ~r.attached[m]
    /\ r.activeIndex[m] = -1
    /\ attached[m] =>
         /\ ClosedCount(r.closedLog, m) = 1
         /\ \A x \in Reach(childMenu, m, NMenus) :
              ~r.attached[x] /\ r.parentMenu[x] = Null /\ r.childMenu[x] = Null
         /\ parentMenu[m] # Null =>
              /\ r.childMenu[parentMenu[m]] = Null
              /\ r.childIndex[parentMenu[m]] = -1
    /\ ~attached[m] => r.closedLog = <<>>

\* The host indices whose floor is not a position of menu m.
OutOfRange(m) ==
  {h \in HostIndexes : FloorHalf(h) < 0 \/ FloorHalf(h) >= Len(items[m])}

\* C15: removeItem with an out-of-range index changes nothing: items, nodes,
\* activeIndex, timers, links and the displayed status of every menu are as
\* before, and nothing is emitted.
C15_RemoveOutOfRangeNoOp ==
  \A m \in Menus : \A h \in OutOfRange(m) : removeItem(Cur, m, h) = Cur

\* C15 witness: a displayed menu with items, an active item, an open child
\* and a pending timer, for which indices below and above the range exist.
C15_Witness ==
  \E m \in Menus :
    /\ attached[m]
    /\ activeIndex[m] # -1
    /\ childMenu[m] # Null
    /\ openTimerID[m] # 0
    /\ \E h \in OutOfRange(m) : FloorHalf(h) < 0
    /\ \E h \in OutOfRange(m) : FloorHalf(h) >= Len(items[m])

\* The position the item is expected at for a host index h (in halves) and a
\* length n before the call.
ExpectedPosition(h, n) ==
  IF h < 0 THEN 0 ELSE IF h \div 2 > n THEN n ELSE h \div 2

\* C16: insertItem(index, item) places the item at max(0, min(floor(index),
\* len)) for the length len before the call, makes the menu one item longer
\* and keeps the other items in their order; addItem appends at the end.
C16_InsertPosition ==
  \A m \in Menus : \A it \in InsertItems :
    /\ \A h \in HostIndexes :
         \E r \in {insertItem(Cur, m, h, it)} :
           \E p \in {ExpectedPosition(h, Len(items[m]))} :
             /\ Len(r.items[m]) = Len(items[m]) + 1
             /\ r.items[m][p + 1] = it
             /\ SubSeq(r.items[m], 1, p) = SubSeq(items[m], 1, p)
             /\ SubSeq(r.items[m], p + 2, Len(r.items[m]))
                  = SubSeq(items[m], p + 1, Len(items[m]))
             /\ \A x \in Menus \ {m} : r.items[x] = items[x]
    /\ addItem(Cur, m, it).items[m] = Append(items[m], it)

\* C16 witness: menus built by an insertion in front of an item and by
\* insertions into an empty menu.
C16_Witness ==
  /\ world = "built"
  /\ items[1] = <<4, 1>>
  /\ items[2] = <<4, 4>>
  /\ items[3] = <<4>>

\* C17: open(x, y) on a menu that is displayed, as a root or as an open
\* submenu, changes nothing and emits nothing.
C17_OpenOnDisplayedNoOp ==
  \A m \in Menus : \A g \in OpenArguments(world) :
    attached[m] => open(Cur, m, g) = Cur

\* C17 witness: a displayed root menu with a displayed submenu and an active
\* item; open applies to both.
C17_Witness ==
  \E m \in Menus :
    /\ attached[m]
    /\ parentMenu[m] = Null
    /\ activeIndex[m] # -1
    /\ childMenu[m] # Null
    /\ attached[childMenu[m]]
    /\ parentMenu[childMenu[m]] = m

\* The menus with a pending open timer that a hover over an item started.
Hovering == {m \in Menus : attached[m] /\ openTimerID[m] # 0}

\* The timer pending for the item at index i of menu m is gone from r: none
\* is pending, or the one pending was started for another item.
OpenCancelled(r, m, i) == r.openTimerID[m] = 0 \/ r.openTimerItem[m] # i

\* C18: when the pointer moves off an item whose hover-open timer is pending,
\* to another item, to a place of the menu with no item, or out of the menu,
\* the pending open is cancelled.
C18_MoveOffCancelsOpen ==
  \A m \in Hovering :
    /\ \A hit \in HitIndexes(m) \ {openTimerItem[m]} :
         OpenCancelled(evtMouseMove(Cur, m, hit), m, openTimerItem[m])
    /\ \A overChild \in BOOLEAN :
         OpenCancelled(evtMouseLeave(Cur, m, overChild), m, openTimerItem[m])

\* The menus whose open submenu is waiting to be closed by the close timer.
Closing ==
  {m \in Menus : /\ attached[m]
                 /\ closeTimerID[m] # 0
                 /\ childMenu[m] # Null
                 /\ attached[childMenu[m]]
                 /\ parentMenu[childMenu[m]] = m}

\* C19: when the close timer for an open submenu is pending and the pointer
\* comes into the submenu, over any of its items or over none, the close
\* timer is cancelled.
C19_ReenterCancelsClose ==
  \A m \in Closing :
    /\ evtMouseLeave(Cur, m, TRUE).closeTimerID[m] = 0
    /\ \A hit \in HitIndexes(childMenu[m]) :
         evtMouseMove(Cur, childMenu[m], hit).closeTimerID[m] = 0

\* The positions (from 1) of the items of a sequence that do not carry the
\* hidden flag, and those of them that are not separators.
Shown(its) == {i \in 1..Len(its) : ~itemHidden[its[i]]}
Plain(its) == {i \in Shown(its) : ItemType(its[i]) # "separator"}

\* The separators a render pass is to suppress: those before the first plain
\* item, those after the last, and those whose nearest shown item before
\* them is a separator.
FollowsSeparator(its, i) ==
  \E j \in Shown(its) :
    /\ j < i
    /\ ItemType(its[j]) = "separator"
    /\ \A k \in Shown(its) : ~(j < k /\ k < i)

ExpectedSuppressed(its) ==
  {i \in Shown(its) \ Plain(its) :
     \/ \A j \in Plain(its) : i < j
     \/ \A j \in Plain(its) : j < i
     \/ FollowsSeparator(its, i)}

\* The positions of menu m that state r shows suppressed: the node has the
\* hidden class and the item does not have the hidden flag.
Suppressed(r, m) ==
  {i \in 1..Len(r.items[m]) : r.hiddenClass[m][i] /\ ~r.itemHidden[r.items[m][i]]}

\* The positions of menu m that are on display in state r.
Displayed(r, m) == {i \in 1..Len(r.items[m]) : ~r.hiddenClass[m][i]}

\* C20: a render pass, judging over the items without the hidden flag,
\* suppresses exactly the separators before the first non-separator, those
\* after the last non-separator and those that directly follow another
\* separator.  After it no two displayed separators are neighbours, the first
\* and the last displayed item are not separators, and no non-separator is
\* suppressed; for [Sep, A, Sep, Sep, B, Sep] the first, fourth and sixth
\* positions are suppressed.
C20_SeparatorsCollapsed ==
  \A m \in Menus : \E r \in {onUpdateRequest(Cur, m)} :
    /\ Suppressed(r, m) = ExpectedSuppressed(items[m])
    /\ Displayed(r, m) = Shown(items[m]) \ ExpectedSuppressed(items[m])
    /\ \A i \in Displayed(r, m) :
         ItemType(items[m][i]) = "separator" =>
           /\ \E j \in Displayed(r, m) : j < i
           /\ \E j \in Displayed(r, m) : i < j
           /\ \A j \in Displayed(r, m) :
                (j < i /\ \A k \in Displayed(r, m) : ~(j < k /\ k < i))
                  => ItemType(items[m][j]) # "separator"
    /\ Plain(items[m]) \subseteq Displayed(r, m)
    /\ items[m] = <<5, 4, 5, 5, 4, 5>> => Suppressed(r, m) = {1, 4, 6}

\* C20 witness: the rendered menu [Sep, A, Sep, Sep, B, Sep].
C20_Witness ==
  /\ world = "render"
  /\ items[1] = <<5, 4, 5, 5, 4, 5>>
  /\ hiddenClass[1] = <<TRUE, FALSE, FALSE, TRUE, FALSE, TRUE>>

\* The text holds, at some position, the marker && directly followed by the
\* character c in either case.
MarkerMatch(text, c) ==
  \E p \in 1..(Len(text) - 2) :
    /\ text[p] = "&"
    /\ text[p + 1] = "&"
    /\ toUpperCase(text[p + 2]) = toUpperCase(c)

\* C21: the mnemonic search for a typed character goes through the items
\* cyclically from activeIndex + 1 round to activeIndex, looks at selectable
\* items only, makes the first matching one active and sets activeIndex to -1
\* when none matches; with one matching item a second press stays on it, with
\* several a second press goes on to the next in cyclic order.
C21_MnemonicScan ==
  \A m \in Menus : \A c \in TypedChars :
    (attached[m] /\ childMenu[m] = Null) =>
      LET n == Len(items[m])
          Matching == {k \in 0..(n - 1) :
                         /\ isSelectable(Cur, At(items[m], k))
                         /\ MarkerMatch(ItemText(At(items[m], k)), c)}
          Dist(k, a) == (k - (a + 1) + n) % n
          NextFrom(a) ==
            IF Matching = {} THEN -1
            ELSE CHOOSE k \in Matching :
                   \A x \in Matching : Dist(k, a) <= Dist(x, a)
          r1 == evtKeyPress(Cur, m, c)
          r2 == evtKeyPress(r1, m, c)
      IN  /\ r1.activeIndex[m] = NextFrom(activeIndex[m])
          /\ r2.activeIndex[m] = NextFrom(r1.activeIndex[m])
          /\ Cardinality(Matching) = 1 =>
               /\ r1.activeIndex[m] \in Matching
               /\ r2.activeIndex[m] = r1.activeIndex[m]

\* C22: a selectable item matches a typed character c whenever its label
\* holds, at any position, the marker && directly followed by c in either
\* case, also when the label holds more than one marker.
C22_MarkerAnywhereMatches ==
  \A m \in Menus : \A c \in TypedChars : \A k \in 0..(Len(items[m]) - 1) :
    (/\ isSelectable(Cur, At(items[m], k))
     /\ MarkerMatch(ItemText(At(items[m], k)), c))
      => MnemonicPass(Cur, m, toUpperCase(c))[k]

StyleAfterOpen(m, g) == open(Cur, m, g).styleLog[1]

\* C24 as stated: with forceX false, a menu whose right edge would pass the
\* viewport right edge is placed with its right edge on the viewport right
\* edge, and otherwise its left edge is the requested x.
C24_RightEdgeOnViewport ==
  \A m \in Menus : \A g \in OpenArguments(world) :
    (world = "placed" /\ ~attached[m] /\ ~g.forceX) =>
      /\ StyleAfterOpen(m, g).visibility = ""
      /\ IF g.x + g.width > g.px + g.cw
         THEN StyleAfterOpen(m, g).left[1] + g.width = g.px + g.cw
         ELSE StyleAfterOpen(m, g).left[1] = g.x

\* C24 amended: with forceX false the left edge is the requested x, moved
\* left by the overflow when the right edge would pass the viewport right
\* edge, and then raised to 0 when it is negative.  So the right edge lies on
\* the viewport right edge when the menu overflows and is no wider than
\* pageXOffset + clientWidth, and the requested x is kept when the menu does
\* not overflow and x >= 0.
C24_RightEdgeUnlessClamped ==
  \A m \in Menus : \A g \in OpenArguments(world) :
    (world = "placed" /\ ~attached[m] /\ ~g.forceX) =>
      /\ StyleAfterOpen(m, g).visibility = ""
      /\ StyleAfterOpen(m, g).menu = m
      /\ (g.x + g.width > g.px + g.cw /\ g.width <= g.px + g.cw) =>
            StyleAfterOpen(m, g).left[1] + g.width = g.px + g.cw
      /\ (g.x + g.width > g.px + g.cw /\ g.width > g.px + g.cw) =>
            StyleAfterOpen(m, g).left[1] = 0
      /\ (g.x + g.width <= g.px + g.cw /\ g.x >= 0) =>
            StyleAfterOpen(m, g).left[1] = g.x
      /\ (g.x + g.width <= g.px + g.cw /\ g.x < 0) =>
            StyleAfterOpen(m, g).left[1] = 0

\* C24 witness: menu 1 was opened at an x where it overflowed and now has its
\* left edge at 3, which no requested x is: its width is 4 and its right edge
\* is on the viewport right edge 7.
C24_Witness ==
  /\ world = "placed"
  /\ attached[1]
  /\ Len(styleLog) = 1
  /\ styleLog[1].menu = 1
  /\ styleLog[1].left = <<3>>
  /\ styleLog[1].visibility = ""
  /\ \E g \in Geometries :
       /\ ~g.forceX /\ g.x + g.width > g.px + g.cw
       /\ Pixels(g.px + g.cw - g.width) = styleLog[1].left

C26_BottomEdgeOnViewport ==
  \A m \in Menus : \A g \in OpenArguments(world) :
    (world = "placed" /\ ~attached[m] /\ ~g.forceY) =>
      /\ StyleAfterOpen(m, g).visibility = ""
      /\ IF g.y + g.height > g.py + g.ch
         THEN StyleAfterOpen(m, g).top[1] + g.height = g.py + g.ch
         ELSE StyleAfterOpen(m, g).top[1] = g.y

\* C26 amended: with forceY false, a menu whose bottom edge would pass the
\* viewport bottom is moved up by its own height when y is not past the
\* viewport bottom, so that its bottom edge is at the requested y, and is
\* placed with its bottom edge on the viewport bottom when y is past it;
\* otherwise y is kept; a negative result is raised to 0.
C26_FlippedAboveY ==
  \A m \in Menus : \A g \in OpenArguments(world) :
    (world = "placed" /\ ~attached[m] /\ ~g.forceY) =>
      /\ StyleAfterOpen(m, g).visibility = ""
      /\ StyleAfterOpen(m, g).menu = m
      /\ (g.y + g.height > g.py + g.ch /\ g.y <= g.py + g.ch) =>
            IF g.y >= g.height
            THEN StyleAfterOpen(m, g).top[1] + g.height = g.y
            ELSE StyleAfterOpen(m, g).top[1] = 0
      /\ (g.y + g.height > g.py + g.ch /\ g.y > g.py + g.ch) =>
            IF g.height <= g.py + g.ch
            THEN StyleAfterOpen(m, g).top[1] + g.height = g.py + g.ch
            ELSE StyleAfterOpen(m, g).top[1] = 0
      /\ g.y + g.height <= g.py + g.ch =>
            IF g.y >= 0
            THEN StyleAfterOpen(m, g).top[1] = g.y
            ELSE StyleAfterOpen(m, g).top[1] = 0

\* C26 witness: menu 1 was opened at y = 5 with height 4, which passes the
\* viewport bottom, and has its top edge at 1: its bottom edge is at the
\* requested y and not on the viewport bottom (6 or 7).  No other geometry
\* gives a top edge of 1.
C26_Witness ==
  /\ world = "placed"
  /\ attached[1]
  /\ Len(styleLog) = 1
  /\ styleLog[1].menu = 1
  /\ styleLog[1].top = <<1>>
  /\ styleLog[1].visibility = ""
  /\ \A g \in Geometries :
       Pixels(RootY(g)) = <<1>> =>
         ~g.forceY /\ g.y + g.height > g.py + g.ch /\ g.y <= g.py + g.ch

\* The item nodes a submenu could be placed by: the rectangle of the node,
\* with the viewport, the measured size of the submenu and its box sizing.
ItemNodes ==
  [defined : {TRUE}, left : {0, 3}, right : {4, 7}, top : {1, 5},
   bottom : {2, 6}, px : PageOffsets, py : PageOffsets,
   cw : ViewportExtents, ch : ViewportExtents,
   width : Extents, height : Extents,
   borderTop : {1}, paddingTop : {0}, borderBottom : {1}, paddingBottom : {0}]

\* C27: a submenu opened from the active item of its parent is made visible
\* with left = item.right - 3, or item.left + 3 - width when its right edge
\* would pass the viewport right edge, and with top = item.top - borderTop -
\* paddingTop, or item.bottom + borderBottom + paddingBottom - height when its
\* bottom edge would pass the viewport bottom, for the rectangle of that item.
C27_SubmenuBesideItem ==
  \A m \in SubmenuLeaves :
    world = "placed" =>
      \E r \in {evtKeyDown(Cur, m, 39)} :
        /\ r.styleLog # <<>>
        /\ \A k \in 1..Len(r.styleLog) :
             /\ r.styleLog[k].menu = itemSubmenu[activeItem(Cur, m)]
             /\ r.styleLog[k].visibility = ""
             /\ \E n \in ItemNodes :
                  /\ r.styleLog[k].left =
                       <<IF n.right - 3 + n.width > n.px + n.cw
                         THEN n.left + 3 - n.width
                         ELSE n.right - 3>>
                  /\ r.styleLog[k].top =
                       <<IF n.top - n.borderTop - n.paddingTop + n.height
                              > n.py + n.ch
                         THEN n.bottom + n.borderBottom + n.paddingBottom
                                - n.height
                         ELSE n.top - n.borderTop - n.paddingTop>>

\* C28: every menu that a step opened, as a root menu or as a submenu, was
\* left visible with a left and a top coordinate that are both >= 0.
C28_PlacedAtOrAfterOrigin ==
  \A k \in 1..Len(styleLog) :
    /\ styleLog[k].visibility = ""
    /\ Len(styleLog[k].left) = 1
    /\ Len(styleLog[k].top) = 1
    /\ styleLog[k].left[1] >= 0
    /\ styleLog[k].top[1] >= 0

\* C29: every 'triggered' emitted by the last step carries an item that is
\* selectable and is not a submenu item; and the left button released over
\* an item that is not selectable or is a submenu item, or Enter handled by a
\* leaf whose active item is such an item, emits no 'triggered' and leaves
\* the menu and the root of its chain displayed.
C29_TriggeredOnlySelectable ==
  /\ \A k \in 1..Len(triggeredLog) :
       /\ isSelectable(Cur, triggeredLog[k][2])
       /\ ItemType(triggeredLog[k][2]) # "submenu"
  /\ \A m \in Menus : \A i \in 0..(Len(items[m]) - 1) :
       (/\ attached[m]
        /\ attached[RootOf(m)]
        /\ \/ ~isSelectable(Cur, At(items[m], i))
           \/ ItemType(At(items[m], i)) = "submenu") =>
         \E r \in {evtMouseUp(Cur, m, 0, i)} :
           /\ r.triggeredLog = <<>>
           /\ r.attached[m]
           /\ r.attached[RootOf(m)]
  /\ \A m \in Leaves :
       (/\ activeItem(Cur, m) # Null
        /\ attached[RootOf(m)]
        /\ \/ ~isSelectable(Cur, activeItem(Cur, m))
           \/ ItemType(activeItem(Cur, m)) = "submenu") =>
         \E r \in {evtKeyDown(Cur, m, 13)} :
           /\ r.triggeredLog = <<>>
           /\ r.attached[m]
           /\ r.attached[RootOf(m)]

\* C30: a menu has at most one open-timer callback and at most one
\* close-timer callback waiting, and has one exactly when the timer field
\* holds a handle; starting a timer of a kind that is pending changes
\* nothing; and once a timer has fired or has been cancelled no callback of
\* it is left to fire.
C30_OneTimerOfEachKind ==
  \A m \in Menus :
    /\ openPending[m] = (IF openTimerID[m] # 0 THEN 1 ELSE 0)
    /\ closePending[m] = (IF closeTimerID[m] # 0 THEN 1 ELSE 0)
    /\ openPending[m] > 0 =>
         /\ StartOpenTimer(Cur, m) = Cur
         /\ openTimerCallback(Cur, m).openPending[m] = 0
         /\ openTimerCallback(Cur, m).openTimerID[m] = 0
         /\ CancelOpenTimer(Cur, m).openPending[m] = 0
         /\ CancelOpenTimer(Cur, m).openTimerID[m] = 0
    /\ closePending[m] > 0 =>
         /\ StartCloseTimer(Cur, m) = Cur
         /\ closeTimerCallback(Cur, m).closePending[m] = 0
         /\ closeTimerCallback(Cur, m).closeTimerID[m] = 0
         /\ CancelCloseTimer(Cur, m).closePending[m] = 0
         /\ CancelCloseTimer(Cur, m).closeTimerID[m] = 0

\* C30 witness: a displayed menu has both an open timer, started by a hover
\* over an item, and a close timer pending.
C30_Witness ==
  \E m \in Menus :
    /\ attached[m]
    /\ openPending[m] = 1
    /\ closePending[m] = 1
    /\ openTimerItem[m] # -1

\* C31: a menu that is not displayed, or that was disposed of, has no open
\* timer and no close timer pending and no callback of one waiting; and
\* close() and dispose() leave the menu so, whatever was pending before.
C31_NoTimerOnClosedMenu ==
  \A m \in Menus :
    /\ (~attached[m] \/ disposed[m]) =>
         /\ ~attached[m]
         /\ openTimerID[m] = 0 /\ openPending[m] = 0
         /\ closeTimerID[m] = 0 /\ closePending[m] = 0
    /\ \A r \in {Close(Cur, m), dispose(Cur, m)} :
         /\ ~r.attached[m]
         /\ r.openTimerID[m] = 0 /\ r.openPending[m] = 0
         /\ r.closeTimerID[m] = 0 /\ r.closePending[m] = 0

\* C31 witness: one menu was disposed of, and another that is displayed with
\* a timer pending is about to be: no item leads to it.
C31_Witness ==
  /\ world = "built"
  /\ \E m \in Menus : disposed[m]
  /\ \E m \in Live :
       /\ attached[m]
       /\ ~Referenced(m)
       /\ openPending[m] + closePending[m] > 0

\* C32: the child-open routine run on a displayed menu m that has an open
\* child, when the nested menu of the active item is the open child, changes
\* nothing; when it is another menu, the old child and every menu below it
\* are closed and unlinked, the new child apart, m stays displayed and the
\* new child is the one child of m, linked to m and displayed.
C32_OneChildAtATime ==
  \A m \in Menus :
    (/\ attached[m]
     /\ childMenu[m] # Null
     /\ ValidSubmenu(Cur, activeItem(Cur, m))) =>
      LET target == itemSubmenu[activeItem(Cur, m)]
          r == OpenChildMenu(Cur, m)
      IN IF target = childMenu[m]
         THEN r = Cur
         ELSE /\ r.attached[m]
              /\ r.childMenu[m] = target
              /\ r.childIndex[m] = activeIndex[m]
              /\ r.parentMenu[target] = m
              /\ r.attached[target]
              /\ \A x \in Reach(childMenu, childMenu[m], NMenus) \ {target, m} :
                   /\ ~r.attached[x]
                   /\ r.parentMenu[x] = Null
                   /\ r.childMenu[x] = Null
                   /\ r.childIndex[x] = -1

\* The ways a displayed menu m with a parent is closed: close(), Escape or
\* Left Arrow handled by m when it is a leaf, a mutation of its items, and
\* the child-close routine of its parent, which the close timer of the
\* parent runs, and the open timer of the parent when the active item of
\* the parent has no nested menu to open.
WaysToClose(m) ==
  {Close(Cur, m)}
    \cup ItemMutations(m)
    \cup (IF childMenu[m] = Null
          THEN {evtKeyDown(Cur, m, 27), evtKeyDown(Cur, m, 37)}
          ELSE {})
    \cup (IF Due(timers, <<"close", parentMenu[m]>>)
          THEN {closeTimerCallback(Cur, parentMenu[m])}
          ELSE {})
    \cup (IF /\ Due(timers, <<"open", parentMenu[m]>>)
             /\ ~ValidSubmenu(Cur, activeItem(Cur, parentMenu[m]))
          THEN {openTimerCallback(Cur, parentMenu[m])}
          ELSE {})

\* C33: closing a displayed menu m that has a parent, in any of those ways,
\* leaves m and every menu below it closed, the childMenu and childIndex of
\* the parent cleared and no timer of the parent pending, and leaves the
\* parent and every menu above it displayed with its activeIndex unchanged.
C33_CloseLeavesAncestors ==
  \A m \in Menus :
    (attached[m] /\ parentMenu[m] # Null) =>
      \A r \in WaysToClose(m) :
        /\ \A x \in Reach(childMenu, m, NMenus) : ~r.attached[x]
        /\ r.childMenu[parentMenu[m]] = Null
        /\ r.childIndex[parentMenu[m]] = -1
        /\ r.openTimerID[parentMenu[m]] = 0
        /\ r.closeTimerID[parentMenu[m]] = 0
        /\ \A a \in Reach(parentMenu, parentMenu[m], NMenus) :
             /\ r.attached[a]
             /\ r.activeIndex[a] = activeIndex[a]

\* C34: in every step, a menu that goes from displayed to closed emits
\* 'closed' exactly once, the menus closed in a cascade each their own; a
\* menu that is closed before the step emits none; and a menu that is
\* displayed before and after the step emits none, unless the step closed it
\* and displayed it again as the new child of a menu, and then it emits one.
C34_ClosedOncePerClosing ==
  [][\A m \in Menus :
       /\ (attached[m] /\ ~attached'[m]) => ClosedCount(closedLog', m) = 1
       /\ ~attached[m] => ClosedCount(closedLog', m) = 0
       /\ (attached[m] /\ attached'[m]) =>
            /\ ClosedCount(closedLog', m) <= 1
            /\ ClosedCount(closedLog', m) = 1 =>
                 /\ parentMenu'[m] # Null
                 /\ parentMenu'[m] # parentMenu[m]
                 /\ childMenu'[parentMenu'[m]] = m
                 /\ childMenu[parentMenu'[m]] # m]_vars

\* C34 witness: the last step closed menu 2 and below it menu 3, each
\* emitted 'closed', and menu 3 was displayed again as the child of menu 1.
C34_Witness ==
  /\ closedLog = <<3, 2>>
  /\ ~attached[2]
  /\ attached[3]
  /\ parentMenu[3] = 1
  /\ childMenu[1] = 3

\* C35: when the open timer of a displayed menu m fires, the child of m
\* afterwards is the nested menu of the item that is active at that time,
\* linked to m and displayed; and when no item is active, or the active item
\* is not a submenu item or has no nested menu, m has no child afterwards,
\* the child it had is closed and no menu is displayed that was not.
C35_OpenTimerUsesCurrentItem ==
  \A m \in Menus :
    (attached[m] /\ Due(timers, <<"open", m>>)) =>
      LET r == openTimerCallback(Cur, m)
      IN IF ValidSubmenu(Cur, activeItem(Cur, m))
         THEN /\ r.childMenu[m] = itemSubmenu[activeItem(Cur, m)]
              /\ r.parentMenu[itemSubmenu[activeItem(Cur, m)]] = m
              /\ r.attached[itemSubmenu[activeItem(Cur, m)]]
         ELSE /\ r.childMenu[m] = Null
              /\ childMenu[m] # Null => ~r.attached[childMenu[m]]
              /\ \A x \in Menus : r.attached[x] => attached[x]

\* C35 witness: the open timer of a displayed menu is the next callback to
\* run, and the active item is not the one the timer was started for and has
\* a nested menu.
C35_Witness ==
  \E m \in Menus :
    /\ attached[m]
    /\ Due(timers, <<"open", m>>)
    /\ openTimerItem[m] # activeIndex[m]
    /\ ValidSubmenu(Cur, activeItem(Cur, m))

\* C36: every step that gives a menu a new open child, while a close timer
\* of the menu is pending, cancels that timer: no close timer started for
\* one child is left to close another.
C36_NewChildSupersedesCloseTimer ==
  [][\A m \in Menus :
       (/\ closePending[m] > 0
        /\ childMenu'[m] # Null
        /\ childMenu'[m] # childMenu[m]) =>
         /\ closePending'[m] = 0
         /\ closeTimerID'[m] = 0]_vars

\* A close timer is pending for the open child of a menu, and a click on
\* another item of the menu opens that item's menu in the child's place.
C36_Witness ==
  \E m \in Menus : \E hit \in HitIndexes(m) :
    /\ attached[m]
    /\ closePending[m] > 0
    /\ childMenu[m] # Null
    /\ evtMouseUp(Cur, m, 0, hit).childMenu[m] \notin {Null, childMenu[m]}
    /\ evtMouseUp(Cur, m, 0, hit).closePending[m] = 0

\* 'mouseleave' on a menu without an open child does nothing but clear the
\* selection and cancel the open timer.
LeaveWithoutChild ==
  \A m \in Menus : \A overChild \in BOOLEAN :
    (attached[m] /\ childMenu[m] = Null) =>
      evtMouseLeave(Cur, m, overChild) =
        [CancelOpenTimer(Cur, m) EXCEPT !.activeIndex[m] = -1]

\* The child of the menu the pointer left has been closed, with every menu
\* that was below it.
LeftChainClosed == leftMenu # Null /\ leftBelow = {}

\* C37: once the pointer has left a menu with an open child for a place
\* outside the child, and no input follows, the child and every menu below
\* it are closed in the end and the menu has no child; on a menu without an
\* open child the pointer leaving only clears the selection and cancels the
\* pending open timer.
C37_LeaveClosesChild ==
  /\ []LeaveWithoutChild
  /\ []HeadReturns
  /\ [](leftMenu # Null => <>LeftChainClosed)

\* C37 witness: the pointer left a menu with an open child, the timers have
\* run, and the menu is still displayed with the child and what was below
\* it closed.
C37_Witness ==
  /\ leftMenu # Null
  /\ attached[leftMenu]
  /\ leftBelow = {}
  /\ timers = <<>>

C39_ClosedMenuUnlinked ==
  \A m \in Menus :
    ~attached[m] =>
      /\ parentMenu[m] = Null
      /\ childMenu[m] = Null
      /\ childIndex[m] = -1

\* The item at the childIndex of menu x is there and selectable.
ChildItemSelectable(x) ==
  /\ childIndex[x] >= 0
  /\ childIndex[x] < Len(items[x])
  /\ isSelectable(Cur, At(items[x], childIndex[x]))

\* C40: a pointer move in a displayed submenu m to another index than its
\* active one ends, and leaves every menu above m without a pending open or
\* close timer and with its activeIndex equal to its childIndex wherever
\* the item at that index is selectable.
C40_MoveSyncsAncestors ==
  \A m \in Menus : \A hit \in HitIndexes(m) :
    (attached[m] /\ parentMenu[m] # Null /\ hit # activeIndex[m]) =>
      LET r == evtMouseMove(Cur, m, hit)
      IN /\ ~r.hung
         /\ \A x \in Reach(parentMenu, parentMenu[m], NMenus) :
              /\ r.openTimerID[x] = 0 /\ r.openPending[x] = 0
              /\ r.closeTimerID[x] = 0 /\ r.closePending[x] = 0
              /\ ChildItemSelectable(x) =>
                   /\ r.activeIndex[x] = childIndex[x]
                   /\ r.childIndex[x] = childIndex[x]
=============================================================================
